---- MODULE Spec2Model ----
(***************************************************************************)
(* Model of the data-catalogue preprocessing toolkit:                      *)
(*   - datasetMetadata_to_obibaFeaturesDict.py (the Dictionary Mapper),    *)
(*   - datasetFeatures_to_obibaAvailabilityData.py (the Availability       *)
(*     Encoder).                                                           *)
(* JSON values are tagged records [t, v]; a key that is absent from a      *)
(* dictionary is the value Absent.  Python exceptions are modelled as the  *)
(* name of the exception class raised ("none" when nothing is raised).     *)
(***************************************************************************)
EXTENDS Integers, Sequences, FiniteSets, TLC

VARIABLES
    pc,          \* position of the running program
    feature,     \* argument of a direct call of determine_value_type
    value_type,  \* its result
    infile,      \* the input JSON file of main: [exists, json_ok, data]
    out_ok,      \* whether the output path can be written (no PermissionError)
    table_name,  \* main's table_name argument
    entries,     \* main's local  entries = data["entries"][0]
    entity_type, \* main's local  entity_type
    variables,   \* main's local  variables
    categories,  \* main's local  categories
    xlsx,        \* the output spreadsheet: [exists, Variables, Categories]
    exc,         \* the message of the exception raised in main's try block, None if none
    exit_status, \* None while running, "0" after main returns, "1" after sys.exit(1)
    stderr,      \* the messages printed to sys.stderr, in order
    stdout,      \* the messages printed to sys.stdout, in order
    parquet,     \* the encoder's input table: [columns, rows]
    df,          \* the encoder's data frame: [columns, rows]
    dictionary,  \* the encoder's --dictionary argument and the file behind it
    csv          \* the encoder's output table: [exists, columns, rows]

vars == <<pc, feature, value_type, infile, out_ok, table_name, entries, entity_type,
          variables, categories, xlsx, exc, exit_status, stderr, stdout, parquet, df,
          dictionary, csv>>

mapperVars == <<infile, out_ok, table_name, entries, entity_type, variables,
                categories, xlsx, exc, exit_status>>
encoderVars == <<parquet, df, dictionary, csv>>
resolverVars == <<feature, value_type>>

-----------------------------------------------------------------------------
(* Bounds of the model. *)
MaxConcepts == 2     \* longest valueSet.concept list
MaxFeatures == 2     \* longest features list
MaxOutcomes == 1     \* longest outcomes list
MaxRows == 2         \* most rows of the encoder's table

-----------------------------------------------------------------------------
(* JSON values. *)
Absent == [t |-> "absent", v |-> ""]
Null == [t |-> "null", v |-> ""]
Str(s) == [t |-> "str", v |-> s]
Num(s) == [t |-> "num", v |-> s]
Bool(s) == [t |-> "bool", v |-> s]
List == [t |-> "list", v |-> ""]
None == "None"

SeqsUpTo(S, n) == UNION {[1..k -> S] : k \in 0..n}

\* dict.get(key, default) on a key whose value is x
Get(x, default) == IF x.t = "absent" THEN default ELSE x

\* Python truthiness of a JSON scalar (None, "", 0 and False are falsy)
Truthy(x) ==
    CASE x.t = "null" -> FALSE
      [] x.t = "str" -> x.v # ""
      [] x.t = "num" -> x.v # "0"
      [] x.t = "bool" -> x.v # "0"
      [] OTHER -> TRUE

\* Python == on JSON scalars: bool is a subclass of int, so True == 1 and False == 0
PyEq(a, b) ==
    CASE a.t \in {"num", "bool"} /\ b.t \in {"num", "bool"} -> a.v = b.v
      [] OTHER -> a.t = b.t /\ a.v = b.v

\* str.upper() on the dataType spellings of the model
Upper(s) ==
    CASE s = "nominal" -> "NOMINAL"
      [] s = "numeric" -> "NUMERIC"
      [] s = "Boolean" -> "BOOLEAN"
      [] s = "datetime" -> "DATETIME"
      [] s = "string" -> "STRING"
      [] OTHER -> s

-----------------------------------------------------------------------------
(* determine_value_type *)

\* type_mapping.get(data_type)
type_mapping(data_type) ==
    CASE data_type = "NUMERIC" -> "decimal"
      [] data_type = "BOOLEAN" -> "boolean"
      [] data_type = "DATETIME" -> "datetime"
      [] OTHER -> None

\* The test with bool left out of the numbers, as  type(first_code) in (int, float)
IsIntOrFloatExact(x) == x.t = "num"

\* isinstance(first_code, (int, float)): bool is a subclass of int
IsIntOrFloat(x) == x.t \in {"num", "bool"}

\* The NOMINAL branch of the try body: [raised, value]
NominalValueType(f) ==
    IF f.valueSet.t = "absent" THEN [raised |-> "ValueError", value |-> None]
    ELSE IF f.valueSet.t # "dict" THEN [raised |-> "AttributeError", value |-> None]
    ELSE LET concepts == IF f.valueSet.hasConcept THEN f.valueSet.concept ELSE <<>>
         IN IF concepts = <<>> THEN [raised |-> "ValueError", value |-> None]
            ELSE IF ~concepts[1].isdict THEN [raised |-> "AttributeError", value |-> None]
            ELSE LET first_code == Get(concepts[1].code, Str(""))
                 IN IF first_code.t = "str" THEN [raised |-> "none", value |-> "text"]
                    ELSE IF IsIntOrFloat(first_code)
                         THEN [raised |-> "none", value |-> "decimal"]
                    ELSE [raised |-> "ValueError", value |-> None]

\* The try body of determine_value_type: [raised, value]
ValueTypeBody(f) ==
    IF f.name.t = "absent" THEN [raised |-> "KeyError", value |-> None]
    ELSE IF Get(f.dataType, Str("")).t # "str"
         THEN [raised |-> "AttributeError", value |-> None]
    ELSE LET data_type == Upper(Get(f.dataType, Str("")).v)
         IN IF data_type = "" THEN [raised |-> "ValueError", value |-> None]
            ELSE IF data_type = "NOMINAL" THEN NominalValueType(f)
            ELSE IF type_mapping(data_type) = None
                 THEN [raised |-> "ValueError", value |-> None]
            ELSE [raised |-> "none", value |-> type_mapping(data_type)]

\* except Exception: print to stderr and return "error"
determine_value_type(f) ==
    LET r == ValueTypeBody(f)
    IN IF r.raised = "none"
       THEN [value |-> r.value, err |-> <<>>]
       ELSE [value |-> "error", err |-> <<"Error determining valueType">>]

-----------------------------------------------------------------------------
(* get_entity_type *)

\* next((f for f in features if f.get('name') == 'encounters_encounterClass'), None):
\* the index of the first such feature, 0 for None
RECURSIVE FirstNamed(_, _, _)
FirstNamed(fs, i, nm) ==
    IF i > Len(fs) THEN 0
    ELSE IF fs[i].name = Str(nm) THEN i
    ELSE FirstNamed(fs, i + 1, nm)

\* next((c for c in concepts if c.get('code') == target_code), None), evaluated
\* lazily from the left: a concept that is no dictionary raises when it is reached
RECURSIVE FirstMatch(_, _, _)
FirstMatch(concepts, i, target_code) ==
    IF i > Len(concepts) THEN [raised |-> "none", idx |-> 0]
    ELSE IF ~concepts[i].isdict THEN [raised |-> "AttributeError", idx |-> 0]
    ELSE IF PyEq(Get(concepts[i].code, Null), target_code)
         THEN [raised |-> "none", idx |-> i]
    ELSE FirstMatch(concepts, i + 1, target_code)

\* entries.get('datasetStats', {}).get('featureStats', {})
\*        .get('encounters_encounterClass', {}).get('valueSet', [None])[0]
TargetCode(e) ==
    IF ~e.stats.present THEN [raised |-> "none", value |-> Null]
    ELSE IF e.stats.valueSet = <<>> THEN [raised |-> "IndexError", value |-> Null]
    ELSE [raised |-> "none", value |-> e.stats.valueSet[1]]

\* The try body of get_entity_type: [raised, value]
EntityTypeBody(e) ==
    LET fs == IF e.hasFeatures THEN e.features ELSE <<>>
        k == FirstNamed(fs, 1, "encounters_encounterClass")
    IN IF k = 0 THEN [raised |-> "none", value |-> Str("participant")]
       ELSE LET tc == TargetCode(e)
            IN IF tc.raised # "none" THEN [raised |-> tc.raised, value |-> Null]
               ELSE IF ~Truthy(tc.value) THEN [raised |-> "ValueError", value |-> Null]
               ELSE IF fs[k].valueSet.t \notin {"absent", "dict"}
                    THEN [raised |-> "AttributeError", value |-> Null]
               ELSE LET concepts == IF fs[k].valueSet.t = "dict" /\ fs[k].valueSet.hasConcept
                                    THEN fs[k].valueSet.concept ELSE <<>>
                        m == FirstMatch(concepts, 1, tc.value)
                    IN IF m.raised # "none" THEN [raised |-> m.raised, value |-> Null]
                       ELSE IF m.idx = 0 THEN [raised |-> "ValueError", value |-> Null]
                       ELSE [raised |-> "none",
                             value |-> Get(concepts[m.idx].display, Null)]

\* except Exception: print to stderr and return "participant"
get_entity_type(e) ==
    LET r == EntityTypeBody(e)
    IN IF r.raised = "none"
       THEN [value |-> r.value, err |-> <<>>]
       ELSE [value |-> Str("participant"), err |-> <<"Error determining entityType">>]

-----------------------------------------------------------------------------
(* extract_variables *)

\* ' '.join(items) on strings held as sequences of characters
RECURSIVE SpaceJoin(_)
SpaceJoin(items) ==
    IF items = <<>> THEN <<>>
    ELSE IF Len(items) = 1 THEN items[1]
    ELSE items[1] \o <<" ">> \o SpaceJoin(Tail(items))

RECURSIVE LStrip(_)
LStrip(s) == IF s # <<>> /\ s[1] = " " THEN LStrip(Tail(s)) ELSE s

RECURSIVE RStrip(_)
RStrip(s) ==
    IF s # <<>> /\ s[Len(s)] = " " THEN RStrip(SubSeq(s, 1, Len(s) - 1)) ELSE s

\* str.strip()
Strip(s) == RStrip(LStrip(s))

\* f"{feature.get('description', '')} {' '.join(feature.get('generatedDescription', []))}".strip()
label_en(f) ==
    Strip((IF f.description.t = "absent" THEN <<>> ELSE f.description.chars)
          \o <<" ">>
          \o SpaceJoin(IF f.generatedDescription.t = "absent" THEN <<>>
                       ELSE f.generatedDescription.items))

\* f"$('{name}')"
script(name) == "$('" \o name \o "')"

\* The row appended for one feature that has a name
VariableRow(f, table, et) ==
    <<table, f.name.v, determine_value_type(f).value, et, "", label_en(f), script(f.name.v)>>

\* One iteration of the for loop: [rows, err]
VariableStep(f, table, et) ==
    IF f.name.t = "absent"
    THEN [rows |-> <<>>, err |-> <<"Missing required key">>]
    ELSE [rows |-> <<VariableRow(f, table, et)>>, err |-> determine_value_type(f).err]

RECURSIVE VariableLoop(_, _, _, _)
VariableLoop(fs, i, table, et) ==
    IF i > Len(fs) THEN [rows |-> <<>>, err |-> <<>>]
    ELSE LET head == VariableStep(fs[i], table, et)
             rest == VariableLoop(fs, i + 1, table, et)
         IN [rows |-> head.rows \o rest.rows, err |-> head.err \o rest.err]

\* The concatenation with its operands swapped
OutcomesAndFeatures(e) ==
    (IF e.hasOutcomes THEN e.outcomes ELSE <<>>)
    \o (IF e.hasFeatures THEN e.features ELSE <<>>)

\* entries.get("features", []) + entries.get("outcomes", [])
FeaturesAndOutcomes(e) ==
    (IF e.hasFeatures THEN e.features ELSE <<>>)
    \o (IF e.hasOutcomes THEN e.outcomes ELSE <<>>)

extract_variables(e, table, et) == VariableLoop(FeaturesAndOutcomes(e), 1, table, et)

-----------------------------------------------------------------------------
(* extract_categories *)

\* The list literal with the code written to the column headed "code" instead
\* of the column headed "name"
CategoryStepCodeColumn(f, concept, table) ==
    IF f.name.t = "absent"
    THEN [raised |-> "none", rows |-> <<>>, err |-> <<"Missing concept key">>]
    ELSE IF ~concept.isdict
         THEN [raised |-> "AttributeError", rows |-> <<>>, err |-> <<>>]
    ELSE [raised |-> "none",
          rows |-> << <<table, f.name.v, Str(""), Get(concept.code, Str("")), 0,
                        Get(concept.display, Str(""))>> >>,
          err |-> <<>>]

\* The list literal appended for one concept; its items are evaluated left to
\* right, so feature["name"] raises before concept.get is tried: [raised, rows, err]
CategoryStep(f, concept, table) ==
    IF f.name.t = "absent"
    THEN [raised |-> "none", rows |-> <<>>, err |-> <<"Missing concept key">>]
    ELSE IF ~concept.isdict
         THEN [raised |-> "AttributeError", rows |-> <<>>, err |-> <<>>]
    ELSE [raised |-> "none",
          rows |-> << <<table, f.name.v, Get(concept.code, Str("")), "", 0,
                        Get(concept.display, Str(""))>> >>,
          err |-> <<>>]

\* for concept in feature["valueSet"].get("concept", [])
RECURSIVE ConceptLoop(_, _, _, _)
ConceptLoop(f, concepts, j, table) ==
    IF j > Len(concepts) THEN [raised |-> "none", rows |-> <<>>, err |-> <<>>]
    ELSE LET head == CategoryStep(f, concepts[j], table)
         IN IF head.raised # "none" THEN head
            ELSE LET rest == ConceptLoop(f, concepts, j + 1, table)
                 IN [raised |-> rest.raised, rows |-> head.rows \o rest.rows,
                     err |-> head.err \o rest.err]

\* The body of the outer for loop with dataType compared as it is spelled,
\* without .upper()
FeatureCategoriesExactCase(f, table) ==
    IF Get(f.dataType, Str("")).t # "str"
    THEN [raised |-> "AttributeError", rows |-> <<>>, err |-> <<>>]
    ELSE IF Get(f.dataType, Str("")).v = "NOMINAL" /\ f.valueSet.t # "absent"
         THEN IF f.valueSet.t # "dict"
              THEN [raised |-> "AttributeError", rows |-> <<>>, err |-> <<>>]
              ELSE ConceptLoop(f, IF f.valueSet.hasConcept THEN f.valueSet.concept
                                  ELSE <<>>, 1, table)
    ELSE [raised |-> "none", rows |-> <<>>, err |-> <<>>]

\* The body of the outer for loop for one feature
FeatureCategories(f, table) ==
    IF Get(f.dataType, Str("")).t # "str"
    THEN [raised |-> "AttributeError", rows |-> <<>>, err |-> <<>>]
    ELSE IF Upper(Get(f.dataType, Str("")).v) = "NOMINAL" /\ f.valueSet.t # "absent"
         THEN IF f.valueSet.t # "dict"
              THEN [raised |-> "AttributeError", rows |-> <<>>, err |-> <<>>]
              ELSE ConceptLoop(f, IF f.valueSet.hasConcept THEN f.valueSet.concept
                                  ELSE <<>>, 1, table)
    ELSE [raised |-> "none", rows |-> <<>>, err |-> <<>>]

RECURSIVE CategoryLoop(_, _, _)
CategoryLoop(fs, i, table) ==
    IF i > Len(fs) THEN [raised |-> "none", rows |-> <<>>, err |-> <<>>]
    ELSE LET head == FeatureCategories(fs[i], table)
         IN IF head.raised # "none" THEN head
            ELSE LET rest == CategoryLoop(fs, i + 1, table)
                 IN [raised |-> rest.raised, rows |-> head.rows \o rest.rows,
                     err |-> head.err \o rest.err]

\* except AttributeError: raise ValueError("Invalid entries structure"); the rows
\* collected so far are lost with the exception, the lines printed are not
extract_categories(e, table) ==
    LET r == CategoryLoop(IF e.hasFeatures THEN e.features ELSE <<>>, 1, table)
    IN IF r.raised = "AttributeError"
       THEN [raised |-> "ValueError", rows |-> <<>>, err |-> r.err]
       ELSE [raised |-> r.raised, rows |-> r.rows, err |-> r.err]

-----------------------------------------------------------------------------
(* validate_json_structure and main *)

\* The validation with required_sections = ["features"] only
validate_json_structure_features_only(data) ==
    IF data.top # "dict" \/ ~data.hasEntries THEN "JSON missing top-level 'entries' key"
    ELSE IF data.entriesT # "list" \/ Len(data.entries) = 0
         THEN "'entries' must be a non-empty list"
    ELSE IF ~data.entries[1].isdict THEN "Entry must be a dictionary"
    ELSE IF ~data.entries[1].hasFeatures THEN "Missing required section 'features' in entry"
    ELSE None

\* The message of the ValueError validate_json_structure raises on data, None
\* when it returns
validate_json_structure(data) ==
    IF data.top # "dict" \/ ~data.hasEntries THEN "JSON missing top-level 'entries' key"
    ELSE IF data.entriesT # "list" \/ Len(data.entries) = 0
         THEN "'entries' must be a non-empty list"
    ELSE IF ~data.entries[1].isdict THEN "Entry must be a dictionary"
    ELSE IF ~data.entries[1].hasFeatures THEN "Missing required section 'features' in entry"
    ELSE IF ~data.entries[1].hasOutcomes THEN "Missing required section 'outcomes' in entry"
    ELSE None

\* if not input_path.exists(): raise FileNotFoundError
CheckInput ==
    /\ pc = "main"
    /\ pc' = IF infile.exists THEN "parse" ELSE "except"
    /\ exc' = IF infile.exists THEN exc ELSE "Input file not found"
    /\ UNCHANGED <<infile, out_ok, table_name, entries, entity_type, variables, categories,
                   xlsx, exit_status, resolverVars, encoderVars, stderr, stdout>>

\* data = json.load(f); json.JSONDecodeError is re-raised as ValueError
ParseJson ==
    /\ pc = "parse"
    /\ pc' = IF infile.json_ok THEN "validate" ELSE "except"
    /\ exc' = IF infile.json_ok THEN exc ELSE "Invalid JSON format in input file"
    /\ UNCHANGED <<infile, out_ok, table_name, entries, entity_type, variables, categories,
                   xlsx, exit_status, resolverVars, encoderVars, stderr, stdout>>

\* validate_json_structure(data); entries = data["entries"][0]
ValidateStructure ==
    /\ pc = "validate"
    /\ IF validate_json_structure(infile.data) = None
       THEN /\ entries' = infile.data.entries[1]
            /\ exc' = exc
            /\ pc' = "entity"
       ELSE /\ entries' = entries
            /\ exc' = validate_json_structure(infile.data)
            /\ pc' = "except"
    /\ UNCHANGED <<infile, out_ok, table_name, entity_type, variables, categories, xlsx,
                   exit_status, resolverVars, encoderVars, stderr, stdout>>

\* entity_type = get_entity_type(entries)
GetEntityType ==
    /\ pc = "entity"
    /\ entity_type' = get_entity_type(entries).value
    /\ stderr' = stderr \o get_entity_type(entries).err
    /\ pc' = "variables"
    /\ UNCHANGED <<infile, out_ok, table_name, entries, variables, categories, xlsx,
                   exc, exit_status, resolverVars, encoderVars, stdout>>

\* variables = extract_variables(entries, table_name, entity_type)
ExtractVariables ==
    /\ pc = "variables"
    /\ variables' = extract_variables(entries, table_name, entity_type).rows
    /\ stderr' = stderr \o extract_variables(entries, table_name, entity_type).err
    /\ pc' = "categories"
    /\ UNCHANGED <<infile, out_ok, table_name, entries, entity_type, categories, xlsx,
                   exc, exit_status, resolverVars, encoderVars, stdout>>

\* categories = extract_categories(entries, table_name)
ExtractCategories ==
    /\ pc = "categories"
    /\ LET r == extract_categories(entries, table_name)
       IN /\ categories' = IF r.raised = "none" THEN r.rows ELSE categories
          /\ stderr' = stderr \o r.err
          /\ exc' = IF r.raised = "none" THEN exc ELSE "Invalid entries structure"
          /\ pc' = IF r.raised = "none" THEN "write" ELSE "except"
    /\ UNCHANGED <<infile, out_ok, table_name, entries, entity_type, variables, xlsx,
                   exit_status, resolverVars, encoderVars, stdout>>

\* with pd.ExcelWriter(xlsx_file) as writer: ...; PermissionError is re-raised
\* as RuntimeError; then the success line is printed and main returns
WriteExcel ==
    /\ pc = "write"
    /\ IF out_ok
       THEN /\ xlsx' = [exists |-> TRUE, Variables |-> variables,
                           Categories |-> categories]
            /\ stdout' = stdout \o <<"Success">>
            /\ exit_status' = "0"
            /\ exc' = exc
            /\ pc' = "done"
       ELSE /\ UNCHANGED <<xlsx, stdout, exit_status>>
            /\ exc' = "Permission denied for output file"
            /\ pc' = "except"
    /\ UNCHANGED <<infile, out_ok, table_name, entries, entity_type, variables,
                   categories, resolverVars, encoderVars, stderr>>

\* except Exception: print the error and the usage, sys.exit(1)
ExceptExit ==
    /\ pc = "except"
    /\ stderr' = stderr \o <<"Error", exc>>
    /\ stdout' = stdout \o <<"Usage instructions", "help", "Examples">>
    /\ exit_status' = "1"
    /\ pc' = "exit"
    /\ UNCHANGED <<infile, out_ok, table_name, entries, entity_type, variables,
                   categories, xlsx, exc, resolverVars, encoderVars>>

NextMapper ==
    \/ CheckInput
    \/ ParseJson
    \/ ValidateStructure
    \/ GetEntityType
    \/ ExtractVariables
    \/ ExtractCategories
    \/ WriteExcel
    \/ ExceptExit

-----------------------------------------------------------------------------
(* A direct call of determine_value_type *)

CallDetermineValueType ==
    /\ pc = "call"
    /\ value_type' = determine_value_type(feature).value
    /\ stderr' = stderr \o determine_value_type(feature).err
    /\ pc' = "returned"
    /\ UNCHANGED <<feature, mapperVars, encoderVars, stdout>>

NextResolver == CallDetermineValueType

-----------------------------------------------------------------------------
(* The Availability Encoder *)

\* The list with its last name left out
BASE_COLUMNS_short == {"pid", "encounterId", "referenceTimePoint", "eventTime"}

BASE_COLUMNS == {"pid", "encounterId", "referenceTimePoint", "eventTime", "exitTime"}

Range(q) == {q[i] : i \in DOMAIN q}

Line(m, c) == [msg |-> m, cols |-> c]

\* The exception the try body of validate_dictionary raises reading the
\* dictionary: pd.read_excel(xls_path, sheet_name='Variables') and dict_df['name']
ReadDictionary(d) ==
    CASE d.file = "missing" -> "FileNotFoundError"
      [] d.file = "no_sheet" -> "ValueError"
      [] d.file = "no_column" -> "KeyError"
      [] OTHER -> "none"

\* The lines the try body of validate_dictionary prints when the dictionary is read
CompareColumns(parquet_columns, d) ==
         LET parquet_cols_to_check == Range(parquet_columns) \ BASE_COLUMNS
             missing_in_dict == parquet_cols_to_check \ d.names
             missing_in_parquet == d.names \ parquet_cols_to_check
         IN IF missing_in_dict # {} \/ missing_in_parquet # {}
            THEN <<Line("Validation errors", {})>>
                 \o (IF missing_in_dict # {}
                     THEN <<Line("Columns missing in XLS", missing_in_dict)>> ELSE <<>>)
                 \o (IF missing_in_parquet # {}
                     THEN <<Line("Columns missing in Parquet", missing_in_parquet)>>
                     ELSE <<>>)
                 \o <<Line("Proceeding", {})>>
            ELSE <<Line("Validation successful", {})>>

\* validate_dictionary without its except clause: an error reading the
\* dictionary is raised to the caller
validate_dictionary_uncaught(parquet_columns, d) ==
    IF ReadDictionary(d) # "none"
    THEN [raised |-> ReadDictionary(d), lines |-> <<>>]
    ELSE [raised |-> "none", lines |-> CompareColumns(parquet_columns, d)]

\* validate_dictionary: [raised, lines]; except Exception catches every error of
\* the try body and prints two lines, so nothing is raised to the caller
validate_dictionary(parquet_columns, d) ==
    IF ReadDictionary(d) # "none"
    THEN [raised |-> "none",
          lines |-> <<Line("Validation error", {}), Line("Proceeding", {})>>]
    ELSE [raised |-> "none", lines |-> CompareColumns(parquet_columns, d)]

\* Series.notna().astype(int) on one cell: only None/NaN is "na"
notna(cell) == IF cell.t = "null" THEN Num("0") ELSE Num("1")

\* for col in df.columns: if col not in BASE_COLUMNS: df[col] = df[col].notna().astype(int)
Binarized(t) ==
    [columns |-> t.columns,
     rows |-> [r \in DOMAIN t.rows |->
                 [c \in DOMAIN t.columns |->
                    IF t.columns[c] \notin BASE_COLUMNS THEN notna(t.rows[r][c])
                    ELSE t.rows[r][c]]]]

\* df = pd.read_parquet(input_parquet)
ReadParquet ==
    /\ pc = "transform_data"
    /\ df' = parquet
    /\ pc' = "validate"
    /\ UNCHANGED <<parquet, dictionary, csv, mapperVars, resolverVars, stderr, stdout>>

\* if dictionary_path: validate_dictionary(df.columns.tolist(), dictionary_path);
\* transform_data has no try, so an exception raised here would end the program
ValidateDictionary ==
    /\ pc = "validate"
    /\ IF Truthy(dictionary.path)
       THEN LET r == validate_dictionary(df.columns, dictionary)
            IN /\ stdout' = stdout \o r.lines
               /\ pc' = IF r.raised = "none" THEN "binarize" ELSE "traceback"
       ELSE /\ stdout' = stdout
            /\ pc' = "binarize"
    /\ UNCHANGED <<encoderVars, mapperVars, resolverVars, stderr>>

Binarize ==
    /\ pc = "binarize"
    /\ df' = Binarized(df)
    /\ pc' = "to_csv"
    /\ UNCHANGED <<parquet, dictionary, csv, mapperVars, resolverVars, stderr, stdout>>

\* df.to_csv(output_csv, index=False) and the closing line
ToCsv ==
    /\ pc = "to_csv"
    /\ csv' = [exists |-> TRUE, columns |-> df.columns, rows |-> df.rows]
    /\ stdout' = stdout \o <<Line("Transformation completed", {})>>
    /\ pc' = "returned"
    /\ UNCHANGED <<parquet, df, dictionary, mapperVars, resolverVars, stderr>>

NextEncoder ==
    \/ ReadParquet
    \/ ValidateDictionary
    \/ Binarize
    \/ ToCsv

-----------------------------------------------------------------------------
(* Inputs: constructors of descriptors *)

Concept(code, display) == [isdict |-> TRUE, code |-> code, display |-> display]
NotADict == [isdict |-> FALSE, code |-> Absent, display |-> Absent]

ValueSet(concepts) == [t |-> "dict", hasConcept |-> TRUE, concept |-> concepts]
NoValueSet == [t |-> "absent", hasConcept |-> FALSE, concept |-> <<>>]
NullValueSet == [t |-> "null", hasConcept |-> FALSE, concept |-> <<>>]
NoConceptKey == [t |-> "dict", hasConcept |-> FALSE, concept |-> <<>>]

NoDescription == [t |-> "absent", chars |-> <<>>]
Description(chars) == [t |-> "str", chars |-> chars]
NoGenerated == [t |-> "absent", items |-> <<>>]
Generated(items) == [t |-> "list", items |-> items]

Feature(name, dataType, valueSet, description, generated) ==
    [name |-> name, dataType |-> dataType, valueSet |-> valueSet,
     description |-> description, generatedDescription |-> generated]

Plain(name, dataType, valueSet) ==
    Feature(name, dataType, valueSet, NoDescription, NoGenerated)

NoStats == [present |-> FALSE, valueSet |-> <<>>]
Stats(codes) == [present |-> TRUE, valueSet |-> codes]

Entry(fs, os, st) ==
    [isdict |-> TRUE, hasFeatures |-> TRUE, features |-> fs,
     hasOutcomes |-> TRUE, outcomes |-> os, stats |-> st]

Data(es) == [top |-> "dict", hasEntries |-> TRUE, entriesT |-> "list", entries |-> es]

\* The descriptors validate_json_structure refuses
BadData ==
    LET e == Entry(<<>>, <<>>, NoStats)
    IN {[Data(<<e>>) EXCEPT !.top = "list"],
        [Data(<<e>>) EXCEPT !.hasEntries = FALSE],
        [Data(<<e>>) EXCEPT !.entriesT = "dict"],
        Data(<<>>),
        Data(<<[e EXCEPT !.isdict = FALSE]>>),
        Data(<<[e EXCEPT !.hasFeatures = FALSE]>>),
        Data(<<[e EXCEPT !.hasOutcomes = FALSE]>>)}

\* The input files of main over the dataset descriptors E
InFiles(E) ==
    {[exists |-> FALSE, json_ok |-> TRUE, data |-> Data(<<>>)],
     [exists |-> TRUE, json_ok |-> FALSE, data |-> Data(<<>>)]}
    \cup {[exists |-> TRUE, json_ok |-> TRUE, data |-> d] : d \in BadData}
    \cup {[exists |-> TRUE, json_ok |-> TRUE, data |-> Data(<<e>>)] : e \in E}

\* The value of main's local entries before it is assigned
Unassigned == [Entry(<<>>, <<>>, NoStats) EXCEPT !.isdict = FALSE]

ResolverIdle == feature = None /\ value_type = None
NoXlsx == [exists |-> FALSE, Variables |-> <<>>, Categories |-> <<>>]
NoCsv == [exists |-> FALSE, columns |-> <<>>, rows |-> <<>>]

EncoderIdle ==
    /\ parquet = [columns |-> <<>>, rows |-> <<>>]
    /\ df = [columns |-> <<>>, rows |-> <<>>]
    /\ dictionary = None
    /\ csv = NoCsv
MapperIdle ==
    /\ infile = None /\ out_ok = TRUE /\ table_name = None /\ entries = Unassigned
    /\ entity_type = Null /\ variables = <<>> /\ categories = <<>>
    /\ xlsx = NoXlsx /\ exc = None /\ exit_status = None

\* The state in which main(json_file, xlsx_file, table_name) is entered
InitMapper(E, W) ==
    /\ pc = "main"
    /\ infile \in InFiles(E)
    /\ out_ok \in W
    /\ table_name = "demo"
    /\ entries = Unassigned
    /\ entity_type = Null
    /\ variables = <<>>
    /\ categories = <<>>
    /\ xlsx = NoXlsx
    /\ exc = None
    /\ exit_status = None
    /\ stderr = <<>>
    /\ stdout = <<>>
    /\ ResolverIdle
    /\ EncoderIdle

-----------------------------------------------------------------------------
(* Direct calls of determine_value_type on one feature descriptor *)

DataTypes ==
    {Absent, Null, Str(""), Str("NOMINAL"), Str("nominal"), Str("NUMERIC"),
     Str("numeric"), Str("BOOLEAN"), Str("Boolean"), Str("DATETIME"), Str("STRING")}

ResolverConcepts ==
    {NotADict} \cup
    {Concept(c, Str("label")) :
        c \in {Absent, Null, Str("5"), Str(""), Num("5"), Num("0"), Bool("1"), List}}

ResolverValueSets ==
    {NoValueSet, NullValueSet, NoConceptKey}
    \cup {ValueSet(cs) : cs \in SeqsUpTo(ResolverConcepts, MaxConcepts)}

ResolverFeatures ==
    {Plain(n, d, vs) : n \in {Absent, Str("age")}, d \in DataTypes, vs \in ResolverValueSets}

InitResolver ==
    /\ pc = "call"
    /\ feature \in ResolverFeatures
    /\ value_type = None
    /\ stderr = <<>>
    /\ stdout = <<>>
    /\ MapperIdle
    /\ EncoderIdle

SpecResolver == InitResolver /\ [][NextResolver]_vars

-----------------------------------------------------------------------------
(* C2: the Value-Type Resolver *)

FirstConcept(f) == f.valueSet.concept[1]

HasFirstConcept(f) ==
    f.valueSet.t = "dict" /\ f.valueSet.hasConcept /\ f.valueSet.concept # <<>>

\* The rules of the claim as written: dataType is compared as it is spelled, and
\* only string and number codes give a type.  Descriptors the rules do not speak
\* of (a first concept that is no record or has no code) are left open (None).
ClaimedValueType(f) ==
    IF f.dataType.t \in {"absent", "null"} \/ f.dataType = Str("") THEN "error"
    ELSE IF f.dataType = Str("NOMINAL")
         THEN IF ~HasFirstConcept(f) THEN "error"
              ELSE IF ~FirstConcept(f).isdict \/ FirstConcept(f).code.t = "absent" THEN None
              ELSE IF FirstConcept(f).code.t = "str" THEN "text"
              ELSE IF FirstConcept(f).code.t = "num" THEN "decimal"
              ELSE "error"
    ELSE IF f.dataType = Str("NUMERIC") THEN "decimal"
    ELSE IF f.dataType = Str("BOOLEAN") THEN "boolean"
    ELSE IF f.dataType = Str("DATETIME") THEN "datetime"
    ELSE "error"

\* C2 as claimed: every call on a named descriptor returns exactly the value the
\* claim's rules give.
C2_Claimed ==
    (pc = "returned" /\ feature.name.t # "absent" /\ ClaimedValueType(feature) # None)
        => value_type = ClaimedValueType(feature)

\* The case-folded spelling of a dataType, "" for one that is no string
Folded(f) == IF f.dataType.t = "str" THEN Upper(f.dataType.v) ELSE ""

\* C2 as amended: every call returns, without raising, "error" for a descriptor
\* without a name; otherwise the rules apply to the upper-cased dataType
\* ("nominal" is NOMINAL), "error" for a missing, empty or non-string dataType;
\* under NOMINAL "error" unless valueSet.concept is a non-empty list whose first
\* entry is a record, "text" when that record's code is a string or is missing,
\* "decimal" when it is a number or a boolean, "error" for any other code;
\* NUMERIC -> "decimal", BOOLEAN -> "boolean", DATETIME -> "datetime"; any other
\* dataType -> "error".
C2_ValueType ==
    pc = "returned" =>
        /\ value_type \in {"text", "decimal", "boolean", "datetime", "error"}
        /\ (feature.name.t = "absent" \/ Folded(feature) = "") => value_type = "error"
        /\ (feature.name.t # "absent" /\ Folded(feature) = "NOMINAL") =>
              /\ (~HasFirstConcept(feature) => value_type = "error")
              /\ (HasFirstConcept(feature) /\ ~FirstConcept(feature).isdict)
                    => value_type = "error"
              /\ (HasFirstConcept(feature) /\ FirstConcept(feature).isdict) =>
                    /\ FirstConcept(feature).code.t \in {"str", "absent"}
                          <=> value_type = "text"
                    /\ FirstConcept(feature).code.t \in {"num", "bool"}
                          <=> value_type = "decimal"
                    /\ FirstConcept(feature).code.t \in {"null", "list"}
                          <=> value_type = "error"
        /\ (feature.name.t # "absent" /\ Folded(feature) = "NUMERIC")
              => value_type = "decimal"
        /\ (feature.name.t # "absent" /\ Folded(feature) = "BOOLEAN")
              => value_type = "boolean"
        /\ (feature.name.t # "absent" /\ Folded(feature) = "DATETIME")
              => value_type = "datetime"
        /\ (Folded(feature) \notin {"NOMINAL", "NUMERIC", "BOOLEAN", "DATETIME"})
              => value_type = "error"
        /\ (value_type = "error") <=> (stderr # <<>>)

\* A lower-case NOMINAL feature with a boolean first code has been resolved
C2_Witness ==
    /\ pc = "returned"
    /\ feature.name = Str("age")
    /\ feature.dataType = Str("nominal")
    /\ HasFirstConcept(feature)
    /\ FirstConcept(feature).code = Bool("1")
    /\ value_type = "decimal"

-----------------------------------------------------------------------------
(* C3: the Entity-Type Resolver *)

EncounterConcepts ==
    {Concept(Str("AMB"), Str("ambulatory")), Concept(Str("IMP"), Str("inpatient")),
     Concept(Str("EMER"), Absent), Concept(Num("0"), Str("none")),
     Concept(Absent, Str("unknown"))}

EncounterValueSets ==
    {NoValueSet, NoConceptKey}
    \cup {ValueSet(cs) : cs \in SeqsUpTo(EncounterConcepts, MaxConcepts)}

EncounterFeature(vs) == Plain(Str("encounters_encounterClass"), Str("NOMINAL"), vs)

Age == Plain(Str("age"), Str("NUMERIC"), NoValueSet)

\* Feature lists over age, the encounter class with value set vs, and a second
\* feature of the same name with a fixed value set
EncounterFeatureLists(vs) ==
    SeqsUpTo({Age, EncounterFeature(vs),
              EncounterFeature(ValueSet(<<Concept(Str("AMB"), Str("other"))>>))},
             MaxFeatures)

EncounterStats ==
    {NoStats, Stats(<<>>), Stats(<<Null>>), Stats(<<Str("AMB")>>), Stats(<<Str("IMP")>>),
     Stats(<<Str("EMER")>>), Stats(<<Num("0")>>), Stats(<<Str("OBS")>>),
     Stats(<<Str("IMP"), Str("AMB")>>)}

EntityEntries ==
    {Entry(fs, <<>>, st) :
        fs \in UNION {EncounterFeatureLists(vs) : vs \in EncounterValueSets},
        st \in EncounterStats}

InitEntity == InitMapper(EntityEntries, {TRUE})

SpecEntity == InitEntity /\ [][NextMapper]_vars

\* main has called get_entity_type
EntityResolved == pc \in {"variables", "categories", "write", "done"}

EncounterIndex == FirstNamed(entries.features, 1, "encounters_encounterClass")

\* The first value of datasetStats.featureStats.encounters_encounterClass.valueSet,
\* Null when there is none
StatsTarget ==
    IF entries.stats.present /\ entries.stats.valueSet # <<>>
    THEN entries.stats.valueSet[1] ELSE Null

\* The concepts of the encounter-class feature whose code equals the target code
MatchingConcepts ==
    LET vs == entries.features[EncounterIndex].valueSet
    IN IF StatsTarget = Null \/ vs.t # "dict" \/ ~vs.hasConcept THEN {}
       ELSE {i \in DOMAIN vs.concept :
                vs.concept[i].code.t # "absent" /\ PyEq(vs.concept[i].code, StatsTarget)}

\* C3 as claimed: get_entity_type returns a display string: "participant" when no
\* feature is named encounters_encounterClass, when the target code is missing
\* or when no concept has the target code, and otherwise the display value of
\* the concept whose code equals the target code.
C3_Claimed ==
    EntityResolved =>
        /\ entity_type.t = "str"
        /\ IF EncounterIndex = 0 THEN entity_type = Str("participant")
           ELSE IF MatchingConcepts = {} THEN entity_type = Str("participant")
           ELSE \E i \in MatchingConcepts :
                   entity_type = entries.features[EncounterIndex].valueSet.concept[i].display

-----------------------------------------------------------------------------
(* Runs of main over descriptors with named and unnamed features and outcomes *)

Sex == Plain(Str("sex"), Str("NOMINAL"),
             ValueSet(<<Concept(Str("M"), Str("Male")), Concept(Str("F"), Str("Female"))>>))

Unnamed == Plain(Absent, Str("NUMERIC"), NoValueSet)

VariableFeatures ==
    {Age, Sex, Unnamed,
     Feature(Str("height"), Str("numeric"), NoValueSet,
             Description(<<"h", " ">>), Generated(<< <<"c">>, <<"m">> >>)),
     Feature(Str("bmi"), Absent, NoValueSet, Description(<<" ">>), Generated(<<>>)),
     Feature(Str("visit"), Str("DATETIME"), NoValueSet, NoDescription,
             Generated(<< <<"v">> >>)),
     EncounterFeature(ValueSet(<<Concept(Str("AMB"), Str("ambulatory"))>>))}

VariableOutcomes ==
    {Unnamed, Age,
     Feature(Str("death"), Str("BOOLEAN"), NoValueSet, Description(<<"d">>), NoGenerated)}

VariableEntries ==
    {Entry(fs, os, st) :
        fs \in SeqsUpTo(VariableFeatures, MaxFeatures),
        os \in SeqsUpTo(VariableOutcomes, MaxOutcomes),
        st \in {NoStats, Stats(<<Str("AMB")>>)}}

InitVariables == InitMapper(VariableEntries, {TRUE})

SpecVariables == InitVariables /\ [][NextMapper]_vars

-----------------------------------------------------------------------------
(* C4: the Variable Extractor *)

\* main has called extract_variables
VariablesExtracted == pc \in {"categories", "write", "done"}

\* features followed by outcomes
Concatenated == entries.features \o entries.outcomes

NamedAt == {i \in DOMAIN Concatenated : Concatenated[i].name.t # "absent"}

\* The place in the output of the row of the named entry at i
RowOf(i) == Cardinality({j \in NamedAt : j <= i})

Occurrences(q, x) == Cardinality({i \in DOMAIN q : q[i] = x})

\* C4: the rows of extract_variables are, in order, one row
\* (table, name, valueType, entityType, "", label, "$('<name>')") per entry of
\* features followed by outcomes that has a name, all with the entity type of
\* the run; an entry without a name gives no row, is logged once and does not
\* stop the loop.
C4_Variables ==
    VariablesExtracted =>
        /\ Len(variables) = Cardinality(NamedAt)
        /\ \A i \in NamedAt :
              LET f == Concatenated[i]
                  row == variables[RowOf(i)]
              IN /\ Len(row) = 7
                 /\ row[1] = table_name
                 /\ row[2] = f.name.v
                 /\ row[3] = determine_value_type(f).value
                 /\ row[4] = entity_type
                 /\ row[5] = ""
                 /\ row[6] = label_en(f)
                 /\ (f.description.t = "absent" /\ f.generatedDescription.t = "absent")
                       => row[6] = <<>>
                 /\ row[7] = "$('" \o f.name.v \o "')"
        /\ Occurrences(stderr, "Missing required key")
              = Len(Concatenated) - Cardinality(NamedAt)

\* An unnamed feature lies between a named feature and a named outcome, and
\* both named entries have their rows
C4_Witness ==
    /\ VariablesExtracted
    /\ Len(entries.features) = 2
    /\ entries.features[1] = Age
    /\ entries.features[2] = Unnamed
    /\ Len(entries.outcomes) = 1
    /\ entries.outcomes[1].name = Str("death")
    /\ Len(variables) = 2
    /\ variables[1] = <<"demo", "age", "decimal", entity_type, "", <<>>, "$('age')">>
    /\ variables[2][2] = "death"

-----------------------------------------------------------------------------
(* Runs of main over every structural failure of the input and of the output *)

\* A NOMINAL feature one of whose concepts is no record
Broken == Plain(Str("smoker"), Str("NOMINAL"),
                ValueSet(<<Concept(Str("Y"), Str("Yes")), NotADict>>))

MainEntries ==
    {Entry(fs, os, NoStats) :
        fs \in SeqsUpTo({Age, Sex, Broken}, MaxFeatures),
        os \in SeqsUpTo({Unnamed}, MaxOutcomes)}

Init == InitMapper(MainEntries, BOOLEAN)

Spec == Init /\ [][NextMapper]_vars

-----------------------------------------------------------------------------
(* C8: structural checks fail fast *)

\* A structural check of main fails on the input or the output of the run
StructuralFailure ==
    \/ ~infile.exists
    \/ ~infile.json_ok
    \/ infile.data.top # "dict"
    \/ ~infile.data.hasEntries
    \/ infile.data.entriesT # "list"
    \/ infile.data.entries = <<>>
    \/ ~infile.data.entries[1].isdict
    \/ ~infile.data.entries[1].hasFeatures
    \/ ~infile.data.entries[1].hasOutcomes
    \/ ~out_ok

\* C8: a run in which a structural check fails never writes the spreadsheet and
\* can only end in the exit with status 1, after the error and the usage help
\* are printed; the spreadsheet is written only by a run that passed every
\* check and made both extractions, and that run does not exit with status 1.
C8_FailFast ==
    /\ StructuralFailure => (~xlsx.exists /\ pc # "done")
    /\ pc \notin {"done", "exit"} => ENABLED NextMapper
    /\ pc = "exit" =>
          /\ exit_status = "1"
          /\ ~xlsx.exists
          /\ Occurrences(stderr, "Error") = 1
          /\ exc # None /\ stderr[Len(stderr)] = exc
          /\ Occurrences(stdout, "help") = 1
    /\ xlsx.exists =>
          /\ pc = "done"
          /\ exit_status = "0"
          /\ ~StructuralFailure
          /\ entries = infile.data.entries[1]
          /\ xlsx.Variables = extract_variables(entries, table_name, entity_type).rows
          /\ xlsx.Categories = extract_categories(entries, table_name).rows
    /\ exit_status = "1" => pc = "exit"

\* A run whose descriptor lacks the outcomes section has exited with status 1
\* and no output
C8_Witness ==
    /\ pc = "exit"
    /\ infile.exists /\ infile.json_ok
    /\ infile.data.entries # <<>>
    /\ infile.data.entries[1].isdict
    /\ infile.data.entries[1].hasFeatures
    /\ ~infile.data.entries[1].hasOutcomes
    /\ exit_status = "1"
    /\ ~xlsx.exists

-----------------------------------------------------------------------------
(* Runs of main over descriptors with NOMINAL features and their concepts *)

CategoryConcepts ==
    {Concept(Str("M"), Str("Male")), Concept(Str("F"), Absent),
     Concept(Absent, Str("Unknown")), NotADict}

CategoryValueSets ==
    {NoValueSet, NoConceptKey}
    \cup {ValueSet(cs) : cs \in SeqsUpTo(CategoryConcepts, MaxConcepts)}

\* Feature lists over NOMINAL features spelled in both cases with value set vs,
\* an unnamed NOMINAL feature and a NUMERIC feature that has a value set
CategoryFeatureLists(vs) ==
    SeqsUpTo({Plain(Str("sex"), Str("NOMINAL"), vs),
              Plain(Str("sex"), Str("nominal"), vs),
              Plain(Absent, Str("NOMINAL"), ValueSet(<<Concept(Str("M"), Str("Male"))>>)),
              Plain(Str("score"), Str("NUMERIC"), ValueSet(<<Concept(Num("1"), Str("one"))>>))},
             MaxFeatures)

CategoryEntries ==
    {Entry(fs, os, NoStats) :
        fs \in UNION {CategoryFeatureLists(vs) : vs \in CategoryValueSets},
        os \in SeqsUpTo({Sex}, MaxOutcomes)}

InitCategories == InitMapper(CategoryEntries, {TRUE})

SpecCategories == InitCategories /\ [][NextMapper]_vars

\* extract_categories has returned its rows to main
CategoriesExtracted == pc \in {"write", "done"}

\* extract_categories has raised
CategoriesRaised == pc \in {"except", "exit"} /\ exc = "Invalid entries structure"

Concepts(f) == IF f.valueSet.t = "dict" /\ f.valueSet.hasConcept THEN f.valueSet.concept ELSE <<>>

\* The features that give category rows: upper-cased dataType NOMINAL, a
\* valueSet and a name
ContributingAt ==
    {i \in DOMAIN entries.features :
        /\ Folded(entries.features[i]) = "NOMINAL"
        /\ entries.features[i].valueSet.t # "absent"
        /\ entries.features[i].name.t # "absent"}

\* A contributing feature has a concept that is no record
HasBrokenConcept ==
    \E i \in ContributingAt :
        \E j \in DOMAIN Concepts(entries.features[i]) : ~Concepts(entries.features[i])[j].isdict

RECURSIVE SumOver(_, _)
SumOver(S, n) ==
    IF S = {} THEN 0
    ELSE LET x == CHOOSE y \in S : TRUE IN n[x] + SumOver(S \ {x}, n)

\* The number of category rows of the contributing features before feature i
RowsBefore(i) ==
    SumOver({k \in ContributingAt : k < i},
            [k \in DOMAIN entries.features |-> Len(Concepts(entries.features[k]))])

OrEmpty(x) == IF x.t = "absent" THEN Str("") ELSE x

-----------------------------------------------------------------------------
(* C10: a malformed concept *)

\* C10 as claimed: extract_categories returns normally, and every well-formed
\* concept of every contributing feature has its category row, whatever
\* malformed concepts stand before or after it.
C10_Claimed ==
    (CategoriesExtracted \/ CategoriesRaised) =>
        /\ ~CategoriesRaised
        /\ \A i \in ContributingAt :
              \A j \in DOMAIN Concepts(entries.features[i]) :
                 LET c == Concepts(entries.features[i])[j]
                 IN c.isdict =>
                       \E k \in DOMAIN categories :
                          categories[k] = <<table_name, entries.features[i].name.v,
                                            OrEmpty(c.code), "", 0, OrEmpty(c.display)>>

-----------------------------------------------------------------------------
(* C6: uniqueness of the output rows *)

Injective(q) == \A i, j \in DOMAIN q : i # j => q[i] # q[j]

\* The names of the variable rows, and the (variable, code) pairs of the
\* category rows
VariableNames(rows) == [k \in DOMAIN rows |-> rows[k][2]]
CategoryKeys(rows) == [k \in DOMAIN rows |-> <<rows[k][2], rows[k][3]>>]

\* No two named entries of features and outcomes share a name
InputNamesDistinct ==
    \A i, j \in NamedAt : i # j => Concatenated[i].name # Concatenated[j].name

\* No two concepts of contributing features share (feature name, code), a
\* missing code counting as ""
InputCodesDistinct ==
    \A i1, i2 \in ContributingAt :
        \A j1 \in DOMAIN Concepts(entries.features[i1]) :
            \A j2 \in DOMAIN Concepts(entries.features[i2]) :
                (<<i1, j1>> # <<i2, j2>>
                   /\ entries.features[i1].name = entries.features[i2].name)
                => OrEmpty(Concepts(entries.features[i1])[j1].code)
                      # OrEmpty(Concepts(entries.features[i2])[j2].code)

\* C6 as claimed: in the rows one run writes, no two variable rows have the
\* same name and no two category rows the same (variable, code) pair (here even
\* for descriptors whose entries have pairwise distinct names).
C6_Claimed ==
    (xlsx.exists /\ InputNamesDistinct) =>
        /\ Injective(VariableNames(xlsx.Variables))
        /\ Injective(CategoryKeys(xlsx.Categories))

\* C6 as amended: the extractors neither merge nor invent rows, so the output is
\* as unique as the input: the variable rows have pairwise distinct names exactly
\* when the named entries of features and outcomes have, and the category rows
\* have pairwise distinct (variable, code) pairs exactly when the concepts of the
\* contributing features have pairwise distinct (feature name, code) pairs.
C6_Uniqueness ==
    /\ VariablesExtracted =>
          (Injective(VariableNames(variables)) <=> InputNamesDistinct)
    /\ CategoriesExtracted =>
          (Injective(CategoryKeys(categories)) <=> InputCodesDistinct)
    /\ xlsx.exists => (xlsx.Variables = variables /\ xlsx.Categories = categories)

\* A run over distinct names and codes has written two variable rows and two
\* category rows, all distinct
C6_Witness ==
    /\ xlsx.exists
    /\ InputNamesDistinct /\ InputCodesDistinct
    /\ Len(xlsx.Variables) = 2
    /\ Len(xlsx.Categories) = 2
    /\ Injective(VariableNames(xlsx.Variables))
    /\ Injective(CategoryKeys(xlsx.Categories))

-----------------------------------------------------------------------------
(* Runs of transform_data *)

Cells == {Null, Str(""), Str("x")}

Layouts ==
    {<<"pid", "a">>, <<"encounterId", "referenceTimePoint">>, <<"b", "eventTime">>,
     <<"a", "exitTime">>, <<"b", "a">>}

Table(cols, rows) == [columns |-> cols, rows |-> rows]

\* Every table over the layouts with at most MaxRows rows
Tables ==
    UNION {{Table(cols, rows) : rows \in SeqsUpTo([1..Len(cols) -> Cells], MaxRows)} :
              cols \in Layouts}

\* A row holding cell in every column
Filled(cols, cell) == [c \in 1..Len(cols) |-> cell]

\* Tables of no row, a row of nulls and a row of values, over the layouts and
\* the columns pid, a, b
ValidationTables ==
    UNION {{Table(cols, <<>>), Table(cols, <<Filled(cols, Null)>>),
            Table(cols, <<Filled(cols, Str("x"))>>)} :
              cols \in Layouts \cup {<<"pid", "a", "b">>}}

NoDictionary == [path |-> Null, file |-> "ok", names |-> {}]

Dictionaries ==
    {NoDictionary, [path |-> Str(""), file |-> "ok", names |-> {"a"}]}
    \cup {[path |-> Str("meta.xls"), file |-> f, names |-> {}] :
             f \in {"missing", "no_sheet", "no_column"}}
    \cup {[path |-> Str("meta.xls"), file |-> "ok", names |-> n] : n \in SUBSET {"a", "b", "c"}}

InitEncoderOver(T, D) ==
    /\ pc = "transform_data"
    /\ parquet \in T
    /\ df = [columns |-> <<>>, rows |-> <<>>]
    /\ dictionary \in D
    /\ csv = NoCsv
    /\ stderr = <<>>
    /\ stdout = <<>>
    /\ MapperIdle
    /\ ResolverIdle

InitEncoder == InitEncoderOver(Tables, {NoDictionary})

SpecEncoder == InitEncoder /\ [][NextEncoder]_vars

InitValidation == InitEncoderOver(ValidationTables, Dictionaries)

SpecValidation == InitValidation /\ [][NextEncoder]_vars

-----------------------------------------------------------------------------
(* C1: the cells of the non-identifier columns *)

\* C1 as claimed: in the table written, every cell of a column that is no
\* identifier column is 1 if the input cell was non-empty and non-null, and 0
\* otherwise.
C1_Claimed ==
    csv.exists =>
        \A r \in DOMAIN parquet.rows :
            \A c \in DOMAIN parquet.columns :
                parquet.columns[c] \notin {"pid", "encounterId", "referenceTimePoint",
                                           "eventTime", "exitTime"}
                => csv.rows[r][c] = IF parquet.rows[r][c] \in {Null, Str("")}
                                    THEN Num("0") ELSE Num("1")

-----------------------------------------------------------------------------
(* C9: the frame of the Availability Encoder *)

Identifiers == {"pid", "encounterId", "referenceTimePoint", "eventTime", "exitTime"}

\* t has the columns and the number of rows of the input, the input's cells
\* in the identifier columns and only 0 or 1 elsewhere
Framed(t) ==
    /\ t.columns = parquet.columns
    /\ Len(t.rows) = Len(parquet.rows)
    /\ \A r \in DOMAIN parquet.rows :
          /\ Len(t.rows[r]) = Len(parquet.columns)
          /\ \A c \in DOMAIN parquet.columns :
                IF parquet.columns[c] \in Identifiers
                THEN t.rows[r][c] = parquet.rows[r][c]
                ELSE t.rows[r][c] \in {Num("0"), Num("1")}

\* C9: the table written has the column names, the column order and the number
\* of rows of the input; every cell of an identifier column is the input's cell,
\* null and empty included; every other cell is 0 or 1.
C9_Frame ==
    /\ pc \in {"to_csv", "returned"} => Framed(df)
    /\ csv.exists => Framed(csv)
    /\ pc = "returned" => csv.exists

\* A table of two rows with an identifier column that holds a null and an
\* empty string beside a rewritten column has been written
C9_Witness ==
    /\ csv.exists
    /\ parquet.columns = <<"a", "exitTime">>
    /\ Len(parquet.rows) = 2
    /\ parquet.rows[1] = <<Str("x"), Null>>
    /\ parquet.rows[2] = <<Null, Str("")>>
    /\ csv.rows = << <<Num("1"), Null>>, <<Num("0"), Str("")>> >>

-----------------------------------------------------------------------------
(* C7: validation is advisory *)

ValidationLines ==
    {"Validation error", "Validation errors", "Validation successful"}

\* C7: when a dictionary path is given, validate_dictionary runs on the table
\* as read, before the binarization, prints its outcome and returns normally
\* whether the dictionary matches, mismatches or cannot be read; whatever the
\* outcome the run goes on to binarize and to write the output table, which is
\* the table a run without a dictionary writes.
C7_Advisory ==
    /\ pc # "traceback"
    /\ pc \in {"transform_data", "validate", "binarize", "to_csv"} => ENABLED NextEncoder
    /\ pc \in {"transform_data", "validate"} => stdout = <<>>
    /\ pc = "binarize" =>
          /\ df = parquet
          /\ Truthy(dictionary.path) <=> stdout # <<>>
          /\ Truthy(dictionary.path) =>
                /\ stdout[1].msg \in ValidationLines
                /\ stdout[1].msg = "Validation error" <=> dictionary.file # "ok"
                /\ stdout[1].msg = "Validation successful"
                      <=> (dictionary.file = "ok"
                           /\ dictionary.names = Range(parquet.columns) \ Identifiers)
    /\ pc = "returned" =>
          /\ csv = [exists |-> TRUE, columns |-> Binarized(parquet).columns,
                    rows |-> Binarized(parquet).rows]
          /\ stdout[Len(stdout)].msg = "Transformation completed"
          /\ Truthy(dictionary.path) => stdout[1].msg \in ValidationLines
    /\ csv.exists => pc = "returned"

\* Columns {pid, a, b} against the dictionary names {a, c}: b is reported
\* missing in the dictionary, c missing in the table, and the output is written
C7_Witness ==
    /\ pc = "returned"
    /\ parquet.columns = <<"pid", "a", "b">>
    /\ dictionary.path = Str("meta.xls")
    /\ dictionary.file = "ok"
    /\ dictionary.names = {"a", "c"}
    /\ stdout = <<Line("Validation errors", {}), Line("Columns missing in XLS", {"b"}),
                  Line("Columns missing in Parquet", {"c"}), Line("Proceeding", {}),
                  Line("Transformation completed", {})>>
    /\ csv.exists

====
